---- MODULE Spec2Model ----
(***************************************************************************)
(* A model of the ZUGFeRD viewer's extraction core:                        *)
(*   - the generic tree accessor  dig / text / asArray                     *)
(*   - the CII extractor          isZugferdXml / parseZugferdXml           *)
(*   - the PDF attachment locator extractXmlAttachment                     *)
(*                                                                         *)
(* JavaScript values are records  [k, kids, n, s]  :                       *)
(*   k    "undefined" | "string" | "number" | "object" | "array"           *)
(*   s    the characters of a string, as a sequence of one-character       *)
(*        strings (so that slicing, suffix tests and digit tests are       *)
(*        computed, not assumed)                                           *)
(*   n    the value of a number                                            *)
(*   kids an object's properties (a function from key to value) or an      *)
(*        array's elements (a sequence)                                    *)
(* Element names, attribute names and path segments are atomic strings:    *)
(* the code only uses them as property keys.                               *)
(***************************************************************************)
EXTENDS Integers, Sequences, FiniteSets, TLC

VARIABLES
    op,     \* the operation that has run on the inputs ("none": not yet)
    tree,   \* input of dig / text: a generic parsed-XML node
    path,   \* input of dig / text: the path, as path.split('.') yields it
    xml,    \* input of isZugferdXml / parseZugferdXml: the XML text, as the
            \* outcome the XML parser has on it
    pdf,    \* input of extractXmlAttachment: the PDF document's catalog
    ret,    \* outcome of the operation: [threw, value]
    pc,         \* openZugferdPreview: the statement it is at
    xmlContent, \* openZugferdPreview: its local xmlContent
    invoiceData,\* openZugferdPreview: its local invoiceData
    calls,      \* openZugferdPreview: the functions it has called, in order
    shown,      \* the messages shown to the user, in order
    panel       \* the webview panel: [created, title, html]

\* The state of the preview command
preview == <<pc, xmlContent, invoiceData, calls, shown, panel>>

vars == <<op, tree, path, xml, pdf, ret, pc, xmlContent, invoiceData, calls, shown, panel>>

-----------------------------------------------------------------------------
(* Bounds of the model *)

MaxNodes == 4       \* nodes of a generic tree
MaxArr == 2         \* elements of an array of a generic tree
MaxPathLen == 3     \* segments of a path
MaxRegs == 3        \* tax registrations of a party
MaxItems == 2       \* line items of an invoice
MaxTaxes == 2       \* settlement-level tax entries of an invoice
MaxNames == 4       \* entries of a PDF Names array
MaxNotes == 3       \* notes of an invoice
MaxPreviewNames == 2 \* entries of the Names array of a previewed PDF

-----------------------------------------------------------------------------
(* JavaScript values *)

NoKids == [q \in {} |-> 0]

Undefined == [k |-> "undefined", kids |-> NoKids, n |-> 0, s |-> <<>>]
Str(cs) == [k |-> "string", kids |-> NoKids, n |-> 0, s |-> cs]
Num(i) == [k |-> "number", kids |-> NoKids, n |-> i, s |-> <<>>]
Arr(elems) == [k |-> "array", kids |-> elems, n |-> 0, s |-> <<>>]
Obj(props) == [k |-> "object", kids |-> props, n |-> 0, s |-> <<>>]

EmptyStr == Str(<<>>)

\* A built-in function, by its name.
Function(name) == [k |-> "function", kids |-> NoKids, n |-> 0, s |-> name]

\* The names of the members an object literal inherits from Object.prototype.
ObjectPrototypeNames ==
    {<<"c", "o", "n", "s", "t", "r", "u", "c", "t", "o", "r">>, <<"_", "_", "p", "r", "o", "t", "o", "_", "_">>, <<"h", "a", "s", "O", "w", "n", "P", "r", "o", "p", "e", "r", "t", "y">>, <<"i", "s", "P", "r", "o", "t", "o", "t", "y", "p", "e", "O", "f">>,
     <<"p", "r", "o", "p", "e", "r", "t", "y", "I", "s", "E", "n", "u", "m", "e", "r", "a", "b", "l", "e">>, <<"t", "o", "L", "o", "c", "a", "l", "e", "S", "t", "r", "i", "n", "g">>, <<"t", "o", "S", "t", "r", "i", "n", "g">>, <<"v", "a", "l", "u", "e", "O", "f">>,
     <<"_", "_", "d", "e", "f", "i", "n", "e", "G", "e", "t", "t", "e", "r", "_", "_">>, <<"_", "_", "d", "e", "f", "i", "n", "e", "S", "e", "t", "t", "e", "r", "_", "_">>, <<"_", "_", "l", "o", "o", "k", "u", "p", "G", "e", "t", "t", "e", "r", "_", "_">>, <<"_", "_", "l", "o", "o", "k", "u", "p", "S", "e", "t", "t", "e", "r", "_", "_">>}

\* table[key] for a table written as an object literal of texts and a key
\* that is a text: the table's own entry; else the member of that name
\* inherited from Object.prototype (the prototype object for '__proto__', a
\* function for every other name); else undefined.
Member(table, key) ==
    IF key \in DOMAIN table THEN Str(table[key])
    ELSE IF key \in ObjectPrototypeNames
         THEN (IF key = <<"_", "_", "p", "r", "o", "t", "o", "_", "_">> THEN Obj(NoKids) ELSE Function(key))
    ELSE Undefined

\* typeof v === 'object' (no null occurs in a parsed tree)
IsObjectType(v) == v.k \in {"object", "array"}

IsScalar(v) == v.k \in {"string", "number"}

\* Truthiness of a value: '' and 0 and undefined are falsy.
Truthy(v) ==
    CASE v.k = "undefined" -> FALSE
      [] v.k = "string" -> v.s # <<>>
      [] v.k = "number" -> v.n # 0
      [] OTHER -> TRUE

Digits == <<"0", "1", "2", "3", "4", "5", "6", "7", "8", "9">>

\* The decimal digits of a non-negative integer.
RECURSIVE DecimalChars(_)
DecimalChars(i) ==
    IF i < 10 THEN <<Digits[i + 1]>>
    ELSE DecimalChars(i \div 10) \o <<Digits[(i % 10) + 1]>>

\* String(v) for a scalar.
String(v) == IF v.k = "number" THEN DecimalChars(v.n) ELSE v.s

\* The index an array-index property key names: "0" -> 0, "1" -> 1, ...;
\* -1 for a key that is no index.
ArrayIndex(key) ==
    IF \E i \in 1..Len(Digits) : Digits[i] = key
    THEN (CHOOSE i \in 1..Len(Digits) : Digits[i] = key) - 1
    ELSE -1

\* v[key] for v an object or an array. Keys are element names, attribute
\* names or indices; inherited properties (length, constructor, ...) are
\* not among them.
Prop(v, key) ==
    CASE v.k = "object" ->
            IF key \in DOMAIN v.kids THEN v.kids[key] ELSE Undefined
      [] v.k = "array" ->
            IF ArrayIndex(key) >= 0 /\ ArrayIndex(key) < Len(v.kids)
            THEN v.kids[ArrayIndex(key) + 1] ELSE Undefined
      [] OTHER -> Undefined

-----------------------------------------------------------------------------
(* The generic tree accessor *)

DigGuardMappingsOnly(current) == current.k # "object"

\* The loop's early return: current is null, undefined or not of type
\* 'object'. An array is of type 'object'.
DigGuard(current) == ~IsObjectType(current)

\* dig's loop over path.split('.').
RECURSIVE DigLoop(_, _)
DigLoop(current, keys) ==
    IF keys = <<>> THEN current
    ELSE IF DigGuard(current) THEN Undefined
    ELSE DigLoop(Prop(current, Head(keys)), Tail(keys))

dig(obj, p) == DigLoop(obj, p)

TextStringifiesObjects(obj, p) ==
    LET val == dig(obj, p) IN
    IF val.k = "undefined" THEN <<>>
    ELSE IF val.k = "object" /\ "#text" \in DOMAIN val.kids
         THEN String(val.kids["#text"])
    ELSE IF val.k = "array" /\ Len(val.kids) > 0 /\ IsScalar(val.kids[1])
         THEN String(val.kids[1])
    ELSE IF IsObjectType(val) THEN <<>>
    ELSE String(val)

text(obj, p) ==
    LET val == dig(obj, p) IN
    IF val.k = "undefined" THEN <<>>
    ELSE IF IsObjectType(val)
         THEN LET inner == Prop(val, "#text") IN
              IF inner.k # "undefined" THEN String(inner) ELSE <<>>
    ELSE String(val)

asArray(val) ==
    IF val.k = "undefined" THEN <<>>
    ELSE IF val.k = "array" THEN val.kids ELSE <<val>>

-----------------------------------------------------------------------------
(* Generic trees: every tree of at most MaxNodes nodes over two scalars,   *)
(* two keys and arrays of at most MaxArr elements. The text-content key    *)
(* '#text' holds a scalar, as the XML parser produces it.                  *)

Scalars == {Str(<<"x">>), Num(7)}
KeySeq == <<"a", "#text">>
Segments == {"a", "#text", "0", "1"}

RECURSIVE TreesOfSize(_), Forests(_, _)

\* The sequences of len trees that have n nodes together.
Forests(n, len) ==
    IF len = 0 THEN (IF n = 0 THEN {<<>>} ELSE {})
    ELSE IF n < len THEN {}
    ELSE UNION {{<<t>> \o f : t \in TreesOfSize(m), f \in Forests(n - m, len - 1)} :
                m \in 1..(n - len + 1)}

KeysIn(K) == SelectSeq(KeySeq, LAMBDA key : key \in K)

ObjOver(K, f) ==
    Obj([key \in K |-> f[CHOOSE i \in 1..Len(KeysIn(K)) : KeysIn(K)[i] = key]])

TextKeyIsScalar(props) ==
    "#text" \in DOMAIN props => IsScalar(props["#text"])

\* The trees of exactly n nodes.
TreesOfSize(n) ==
    IF n = 1 THEN Scalars \cup {Arr(<<>>), Obj(NoKids)}
    ELSE {Arr(f) : f \in UNION {Forests(n - 1, len) : len \in 1..MaxArr}}
         \cup {t \in UNION {{ObjOver(K, f) : f \in Forests(n - 1, Cardinality(K))} :
                            K \in (SUBSET {KeySeq[i] : i \in 1..Len(KeySeq)}) \ {{}}} :
               TextKeyIsScalar(t.kids)}

\* The trees of at most max nodes.
TreesUpTo(max) == UNION {TreesOfSize(n) : n \in 1..max}

RECURSIVE PathsOfLen(_)
PathsOfLen(len) ==
    IF len = 0 THEN {<<>>}
    ELSE {Append(q, seg) : q \in PathsOfLen(len - 1), seg \in Segments}

\* The paths of one to max segments.
PathsUpTo(max) == UNION {PathsOfLen(len) : len \in 1..max}

-----------------------------------------------------------------------------
(* Outcomes *)

Bool(b) == [k |-> "boolean", kids |-> NoKids, n |-> IF b THEN 1 ELSE 0, s |-> <<>>]
Err(message) == [k |-> "error", kids |-> NoKids, n |-> 0, s |-> <<message>>]

Returned(v) == [threw |-> FALSE, value |-> v]
Threw(message) == [threw |-> TRUE, value |-> Err(message)]
NotRun == [threw |-> FALSE, value |-> Undefined]

-----------------------------------------------------------------------------
(* The XML parser, as configured. An XML text is modelled by what the      *)
(* parser does with it: it raises on malformed syntax, or yields the       *)
(* parsed tree (namespace prefixes stripped, attributes under '@_' keys,   *)
(* the elements of ArrayNames always as arrays).                           *)

ArrayNames ==
    {"IncludedSupplyChainTradeLineItem", "ApplicableTradeTax",
     "SpecifiedTaxRegistration", "IncludedNote"}

Malformed == [wellFormed |-> FALSE, parsed |-> Undefined]
WellFormed(t) == [wellFormed |-> TRUE, parsed |-> t]

parse(x) == IF x.wellFormed THEN Returned(x.parsed) ELSE Threw("XML syntax error")

-----------------------------------------------------------------------------
(* The CII extractor *)

\* a || b on strings
OrElse(a, b) == IF a # <<>> THEN a ELSE b

\* s || undefined
OrUndefined(cs) == IF cs # <<>> THEN Str(cs) ELSE Undefined

IsDigit(c) == \E i \in 1..Len(Digits) : Digits[i] = c

formatDate(raw) ==
    IF Len(raw) = 8 /\ \A i \in 1..8 : IsDigit(raw[i])
    THEN SubSeq(raw, 7, 8) \o <<".">> \o SubSeq(raw, 5, 6) \o <<".">> \o SubSeq(raw, 1, 4)
    ELSE raw

parseAddressOptionalFields(party) ==
    [name |-> OrUndefined(text(party, <<"Name">>)),
     street |-> OrUndefined(text(party, <<"PostalTradeAddress", "LineOne">>)),
     postalCode |-> OrUndefined(text(party, <<"PostalTradeAddress", "PostcodeCode">>)),
     city |-> OrUndefined(text(party, <<"PostalTradeAddress", "CityName">>)),
     country |-> OrUndefined(text(party, <<"PostalTradeAddress", "CountryID">>))]

parseAddress(party) ==
    [name |-> Str(text(party, <<"Name">>)),
     street |-> Str(text(party, <<"PostalTradeAddress", "LineOne">>)),
     postalCode |-> Str(text(party, <<"PostalTradeAddress", "PostcodeCode">>)),
     city |-> Str(text(party, <<"PostalTradeAddress", "CityName">>)),
     country |-> Str(text(party, <<"PostalTradeAddress", "CountryID">>))]

paymentMeansNames ==
    [code \in {<<"1", "0">>, <<"2", "0">>, <<"3", "0">>, <<"4", "2">>, <<"4", "8">>, <<"4", "9">>, <<"5", "7">>, <<"5", "8">>, <<"5", "9">>} |->
        CASE code = <<"1", "0">> -> <<"C", "a", "s", "h">>
          [] code = <<"2", "0">> -> <<"C", "h", "e", "q", "u", "e">>
          [] code = <<"3", "0">> -> <<"C", "r", "e", "d", "i", "t", " ", "t", "r", "a", "n", "s", "f", "e", "r">>
          [] code = <<"4", "2">> -> <<"P", "a", "y", "m", "e", "n", "t", " ", "t", "o", " ", "b", "a", "n", "k", " ", "a", "c", "c", "o", "u", "n", "t">>
          [] code = <<"4", "8">> -> <<"C", "a", "r", "d", " ", "p", "a", "y", "m", "e", "n", "t">>
          [] code = <<"4", "9">> -> <<"D", "i", "r", "e", "c", "t", " ", "d", "e", "b", "i", "t">>
          [] code = <<"5", "7">> -> <<"S", "t", "a", "n", "d", "i", "n", "g", " ", "a", "g", "r", "e", "e", "m", "e", "n", "t">>
          [] code = <<"5", "8">> -> <<"S", "E", "P", "A", " ", "c", "r", "e", "d", "i", "t", " ", "t", "r", "a", "n", "s", "f", "e", "r">>
          [] code = <<"5", "9">> -> <<"S", "E", "P", "A", " ", "d", "i", "r", "e", "c", "t", " ", "d", "e", "b", "i", "t">>]

ProfileMinimum == <<"M", "I", "N", "I", "M", "U", "M">>
ProfileBasicWL == <<"B", "A", "S", "I", "C", " ", "W", "L">>
ProfileBasic == <<"B", "A", "S", "I", "C">>
ProfileEN16931 == <<"E", "N", " ", "1", "6", "9", "3", "1">>
ProfileExtended == <<"E", "X", "T", "E", "N", "D", "E", "D">>

UrnMinimum == <<"u", "r", "n", ":", "f", "a", "c", "t", "u", "r", "-", "x", ".", "e", "u", ":", "1", "p", "0", ":", "m", "i", "n", "i", "m", "u", "m">>
UrnBasicWL == <<"u", "r", "n", ":", "f", "a", "c", "t", "u", "r", "-", "x", ".", "e", "u", ":", "1", "p", "0", ":", "b", "a", "s", "i", "c", "w", "l">>
UrnBasic == <<"u", "r", "n", ":", "f", "a", "c", "t", "u", "r", "-", "x", ".", "e", "u", ":", "1", "p", "0", ":", "b", "a", "s", "i", "c">>
UrnEN16931 == <<"u", "r", "n", ":", "c", "e", "n", ".", "e", "u", ":", "e", "n", "1", "6", "9", "3", "1", ":", "2", "0", "1", "7">>
UrnExtended == <<"u", "r", "n", ":", "c", "e", "n", ".", "e", "u", ":", "e", "n", "1", "6", "9", "3", "1", ":", "2", "0", "1", "7", "#", "c", "o", "m", "p", "l", "i", "a", "n", "t", "#", "u", "r", "n", ":", "f", "a", "c", "t", "u", "r", "-", "x", ".", "e", "u", ":", "1", "p", "0", ":", "e", "x", "t", "e", "n", "d", "e", "d">>

profileNames ==
    [code \in {<<"A", "1">>, <<"A", "2">>, <<"A", "3">>, <<"A", "4">>, <<"A", "5">>,
               UrnMinimum, UrnBasicWL, UrnBasic, UrnEN16931, UrnExtended} |->
        CASE code \in {<<"A", "1">>, UrnMinimum} -> ProfileMinimum
          [] code \in {<<"A", "2">>, UrnBasicWL} -> ProfileBasicWL
          [] code \in {<<"A", "3">>, UrnBasic} -> ProfileBasic
          [] code \in {<<"A", "4">>, UrnEN16931} -> ProfileEN16931
          [] code \in {<<"A", "5">>, UrnExtended} -> ProfileExtended]

\* if (profileNames[zugferdProfile]) { zugferdProfile = profileNames[zugferdProfile]; }
profileLabel(code) ==
    IF Truthy(Member(profileNames, code)) THEN Member(profileNames, code) ELSE Str(code)

\* paymentMeansNames[paymentTypeCode] ?? (paymentTypeCode || undefined)
paymentMeansType(paymentTypeCode) ==
    IF Member(paymentMeansNames, paymentTypeCode).k # "undefined"
    THEN Member(paymentMeansNames, paymentTypeCode)
    ELSE OrUndefined(paymentTypeCode)

\* The scheme of a tax registration: its ID's '@_schemeID' when the ID is
\* of type 'object', else undefined.
schemeOf(reg) ==
    LET id == Prop(reg, "ID") IN
    IF IsObjectType(id) THEN Prop(id, "@_schemeID") ELSE Undefined

SchemeVA == Str(<<"V", "A">>)
SchemeFC == Str(<<"F", "C">>)

RECURSIVE sellerTaxRegsKeepFirst(_, _)
sellerTaxRegsKeepFirst(taxRegs, acc) ==
    IF taxRegs = <<>> THEN acc
    ELSE LET reg == Head(taxRegs)
             value == text(reg, <<"ID">>)
         IN sellerTaxRegsKeepFirst(Tail(taxRegs),
                IF schemeOf(reg) = SchemeVA /\ acc.sellerVatId = <<>>
                    THEN [acc EXCEPT !.sellerVatId = value]
                ELSE IF schemeOf(reg) = SchemeFC /\ acc.sellerTaxId = <<>>
                    THEN [acc EXCEPT !.sellerTaxId = value]
                ELSE acc)

\* The loop over the seller's tax registrations; acc holds sellerTaxId and
\* sellerVatId, both '' before the loop.
RECURSIVE sellerTaxRegs(_, _)
sellerTaxRegs(taxRegs, acc) ==
    IF taxRegs = <<>> THEN acc
    ELSE LET reg == Head(taxRegs)
             value == text(reg, <<"ID">>)
         IN sellerTaxRegs(Tail(taxRegs),
                IF schemeOf(reg) = SchemeVA THEN [acc EXCEPT !.sellerVatId = value]
                ELSE IF schemeOf(reg) = SchemeFC THEN [acc EXCEPT !.sellerTaxId = value]
                ELSE acc)

\* The loop over the buyer's tax registrations: it breaks at the first 'VA'.
RECURSIVE buyerTaxRegs(_)
buyerTaxRegs(taxRegs) ==
    IF taxRegs = <<>> THEN <<>>
    ELSE IF schemeOf(Head(taxRegs)) = SchemeVA THEN text(Head(taxRegs), <<"ID">>)
    ELSE buyerTaxRegs(Tail(taxRegs))

lineTaxRateAlwaysSuffixed(taxPercent) == taxPercent \o <<"%">>

\* taxPercent ? `${taxPercent}%` : ''
lineTaxRate(taxPercent) ==
    IF taxPercent # <<>> THEN taxPercent \o <<"%">> ELSE <<>>

lineItem(item) ==
    LET qty == text(item, <<"SpecifiedLineTradeDelivery", "BilledQuantity">>)
        bq == dig(item, <<"SpecifiedLineTradeDelivery", "BilledQuantity">>)
        unitCode == Prop(bq, "@_unitCode")
        unit == IF IsObjectType(bq) /\ unitCode.k # "undefined"
                THEN String(unitCode) ELSE <<>>
        taxPercent ==
            OrElse(text(item, <<"SpecifiedLineTradeSettlement", "ApplicableTradeTax",
                                "0", "RateApplicablePercent">>),
                   text(item, <<"SpecifiedLineTradeSettlement", "ApplicableTradeTax",
                                "RateApplicablePercent">>))
    IN [position |-> Str(text(item, <<"AssociatedDocumentLineDocument", "LineID">>)),
        description |-> Str(text(item, <<"SpecifiedTradeProduct", "Name">>)),
        quantity |-> Str(qty),
        unit |-> Str(unit),
        unitPrice |-> Str(text(item, <<"SpecifiedLineTradeAgreement",
                                       "NetPriceProductTradePrice", "ChargeAmount">>)),
        taxRate |-> Str(lineTaxRate(taxPercent)),
        total |-> Str(text(item, <<"SpecifiedLineTradeSettlement",
                                   "SpecifiedTradeSettlementLineMonetarySummation",
                                   "LineTotalAmount">>))]

taxBreakdownEntryRateWhenStated(t) ==
    [rate |-> Str(lineTaxRate(text(t, <<"RateApplicablePercent">>))),
     basis |-> Str(text(t, <<"BasisAmount">>)),
     amount |-> Str(text(t, <<"CalculatedAmount">>))]

taxBreakdownEntry(t) ==
    [rate |-> Str(text(t, <<"RateApplicablePercent">>) \o <<"%">>),
     basis |-> Str(text(t, <<"BasisAmount">>)),
     amount |-> Str(text(t, <<"CalculatedAmount">>))]

RECURSIVE Join(_, _)
Join(seqs, sep) ==
    IF seqs = <<>> THEN <<>>
    ELSE IF Len(seqs) = 1 THEN seqs[1]
    ELSE seqs[1] \o sep \o Join(Tail(seqs), sep)

noteTextsKeepEmpty(notes) == [i \in 1..Len(notes) |-> text(notes[i], <<"Content">>)]

\* notes.map(n => text(n, 'Content')).filter(Boolean)
noteTexts(notes) ==
    SelectSeq([i \in 1..Len(notes) |-> text(notes[i], <<"Content">>)],
              LAMBDA cs : cs # <<>>)

\* The record parseZugferdXml builds from a truthy root.
InvoiceData(root) ==
    LET doc == Prop(root, "ExchangedDocument")
        context == Prop(root, "ExchangedDocumentContext")
        transaction == Prop(root, "SupplyChainTradeTransaction")
        agreement == dig(transaction, <<"ApplicableHeaderTradeAgreement">>)
        delivery == dig(transaction, <<"ApplicableHeaderTradeDelivery">>)
        settlement == dig(transaction, <<"ApplicableHeaderTradeSettlement">>)
        totals == dig(settlement, <<"SpecifiedTradeSettlementHeaderMonetarySummation">>)
        guidelineParam == dig(context, <<"GuidelineSpecifiedDocumentContextParameter">>)
        zugferdVersion == text(guidelineParam, <<"ID">>)
        businessProcess == dig(context, <<"BusinessProcessSpecifiedDocumentContextParameter">>)
        zugferdProfile == profileLabel(text(businessProcess, <<"ID">>))
        seller == dig(agreement, <<"SellerTradeParty">>)
        buyer == dig(agreement, <<"BuyerTradeParty">>)
        taxRegs == asArray(dig(seller, <<"SpecifiedTaxRegistration">>))
        sellerIds == sellerTaxRegs(taxRegs, [sellerTaxId |-> <<>>, sellerVatId |-> <<>>])
        buyerTaxRegsArr == asArray(dig(buyer, <<"SpecifiedTaxRegistration">>))
        buyerVatId == buyerTaxRegs(buyerTaxRegsArr)
        sellerContact == dig(seller, <<"DefinedTradeContact">>)
        sellerContactName == text(sellerContact, <<"PersonName">>)
        sellerEmail == text(sellerContact, <<"EmailURIUniversalCommunication", "URIID">>)
        sellerPhone == text(sellerContact, <<"TelephoneUniversalCommunication", "CompleteNumber">>)
        currency == text(settlement, <<"InvoiceCurrencyCode">>)
        rawItems == asArray(dig(transaction, <<"IncludedSupplyChainTradeLineItem">>))
        lineItems == [i \in 1..Len(rawItems) |-> lineItem(rawItems[i])]
        rawTaxes == asArray(dig(settlement, <<"ApplicableTradeTax">>))
        taxBreakdown == [i \in 1..Len(rawTaxes) |-> taxBreakdownEntry(rawTaxes[i])]
        paymentMeans == dig(settlement, <<"SpecifiedTradeSettlementPaymentMeans">>)
        paymentTypeCode == text(paymentMeans, <<"TypeCode">>)
        terms == dig(settlement, <<"SpecifiedTradePaymentTerms">>)
        dueDate == text(terms, <<"DueDateDateTime", "DateTimeString">>)
        notes == asArray(dig(doc, <<"IncludedNote">>))
    IN [zugferdVersion |-> OrUndefined(zugferdVersion),
        zugferdProfile |-> IF Truthy(zugferdProfile) THEN zugferdProfile ELSE Undefined,
        seller |-> parseAddress(seller),
        sellerTaxId |-> OrUndefined(sellerIds.sellerTaxId),
        sellerVatId |-> OrUndefined(sellerIds.sellerVatId),
        sellerContact |-> OrUndefined(sellerContactName),
        sellerEmail |-> OrUndefined(sellerEmail),
        sellerPhone |-> OrUndefined(sellerPhone),
        buyer |-> parseAddress(buyer),
        buyerVatId |-> OrUndefined(buyerVatId),
        buyerReference |-> OrUndefined(text(agreement, <<"BuyerReference">>)),
        invoiceNumber |-> Str(text(doc, <<"ID">>)),
        invoiceDate |-> Str(formatDate(text(doc, <<"IssueDateTime", "DateTimeString">>))),
        dueDate |-> IF dueDate # <<>> THEN Str(formatDate(dueDate)) ELSE Undefined,
        deliveryDate |-> OrUndefined(formatDate(text(delivery,
                            <<"ActualDeliverySupplyChainEvent", "OccurrenceDateTime",
                              "DateTimeString">>))),
        orderReference |-> OrUndefined(text(agreement,
                            <<"BuyerOrderReferencedDocument", "IssuerAssignedID">>)),
        currency |-> Str(currency),
        lineItems |-> lineItems,
        totalNet |-> Str(text(totals, <<"TaxBasisTotalAmount">>)),
        totalTax |-> Str(text(totals, <<"TaxTotalAmount">>)),
        totalGross |-> Str(text(totals, <<"GrandTotalAmount">>)),
        taxBreakdown |-> IF Len(taxBreakdown) > 0 THEN Arr(taxBreakdown) ELSE Undefined,
        paymentTerms |-> OrUndefined(text(terms, <<"Description">>)),
        paymentMeansType |-> paymentMeansType(paymentTypeCode),
        bankName |-> OrUndefined(text(paymentMeans,
                            <<"PayeeSpecifiedCreditorFinancialInstitution", "Name">>)),
        iban |-> OrUndefined(text(paymentMeans,
                            <<"PayeePartyCreditorFinancialAccount", "IBANID">>)),
        bic |-> OrUndefined(text(paymentMeans,
                            <<"PayeeSpecifiedCreditorFinancialInstitution", "BICID">>)),
        paymentReference |-> OrUndefined(text(settlement, <<"PaymentReference">>)),
        notes |-> OrUndefined(Join(noteTexts(notes), <<"\n">>))]

isZugferdXmlTruthyRoot(x) ==
    LET parsed == parse(x) IN
    IF parsed.threw THEN FALSE
    ELSE Truthy(Prop(parsed.value, "CrossIndustryInvoice"))

isZugferdXml(x) ==
    LET parsed == parse(x) IN
    IF parsed.threw THEN FALSE
    ELSE Prop(parsed.value, "CrossIndustryInvoice").k # "undefined"

NotValidError == "Not a valid ZUGFeRD/CII XML document"

\* The outcome of parseZugferdXml: the parser's exception, the 'not valid'
\* error of a falsy root, or the record.
parseZugferdXml(x) ==
    LET parsed == parse(x) IN
    IF parsed.threw THEN parsed
    ELSE LET root == Prop(parsed.value, "CrossIndustryInvoice") IN
         IF ~Truthy(root) THEN Threw(NotValidError)
         ELSE Returned(InvoiceData(root))

-----------------------------------------------------------------------------
(* The renderer. The HTML page is modelled by the escaped texts it is      *)
(* composed of, section by section.                                        *)

escapeHtmlChar(c) ==
    CASE c = "&" -> <<"&", "a", "m", "p", ";">>
      [] c = "<" -> <<"&", "l", "t", ";">>
      [] c = ">" -> <<"&", "g", "t", ";">>
      [] c = "\"" -> <<"&", "q", "u", "o", "t", ";">>
      [] OTHER -> <<c>>

RECURSIVE escapeHtmlChars(_)
escapeHtmlChars(cs) ==
    IF cs = <<>> THEN <<>>
    ELSE escapeHtmlChar(Head(cs)) \o escapeHtmlChars(Tail(cs))

NotAFunctionError == "text.replace is not a function"

\* escapeHtml(text): the escaped text; a value that is no string has no
\* method replace, and calling it raises a TypeError.
escapeHtml(v) ==
    IF v.k = "string" THEN Returned(Str(escapeHtmlChars(v.s)))
    ELSE Threw(NotAFunctionError)

\* The fields rendered whenever they are truthy.
OptionalFields ==
    <<"zugferdVersion", "zugferdProfile", "dueDate", "deliveryDate", "orderReference",
      "buyerReference", "sellerVatId", "sellerTaxId", "iban", "bic", "bankName",
      "paymentMeansType", "paymentReference", "paymentTerms", "sellerContact",
      "sellerEmail", "sellerPhone", "notes">>

\* The fields rendered always.
RequiredFields ==
    <<"invoiceNumber", "invoiceDate", "currency", "totalNet", "totalTax", "totalGross">>

\* The escaped texts of those of the fields that are truthy, in order.
EscapedTruthy(data, fields) ==
    LET truthy == SelectSeq(fields, LAMBDA f : Truthy(data[f]))
    IN [i \in 1..Len(truthy) |-> escapeHtml(data[truthy[i]]).value]

\* [street, `${postalCode} ${city}`, country]
AddressLines(addr) ==
    <<addr.street, Str(addr.postalCode.s \o <<" ">> \o addr.city.s), addr.country>>

\* Every value renderInvoiceHtml passes to escapeHtml.
EscapedValues(data) ==
    {data[RequiredFields[i]] : i \in 1..Len(RequiredFields)}
    \cup {data[OptionalFields[i]] :
            i \in {j \in 1..Len(OptionalFields) : Truthy(data[OptionalFields[j]])}}
    \cup {data.seller.name, data.buyer.name}
    \cup {v \in {AddressLines(data.seller)[i] : i \in 1..3} \cup {AddressLines(data.buyer)[i] : i \in 1..3} : Truthy(v)}
    \cup UNION {{item.position, item.description, item.quantity, item.unit,
                 item.unitPrice, item.taxRate, item.total} :
                    item \in {data.lineItems[i] : i \in 1..Len(data.lineItems)}}
    \cup (IF data.taxBreakdown.k = "undefined" THEN {}
          ELSE UNION {{tax.rate, tax.basis, tax.amount} :
                        tax \in {data.taxBreakdown.kids[i] : i \in 1..Len(data.taxBreakdown.kids)}})

\* The page: a value of its own kind, holding the escaped texts.
Html(sections) == [k |-> "html", kids |-> sections, n |-> 0, s |-> <<>>]

renderInvoiceHtml(data, cssUri) ==
    IF \E v \in EscapedValues(data) : escapeHtml(v).threw THEN Threw(NotAFunctionError)
    ELSE Returned(Html(
        [cssUri |-> cssUri,
         required |-> [i \in 1..Len(RequiredFields) |->
                          escapeHtml(data[RequiredFields[i]]).value],
         optional |-> [i \in 1..Len(OptionalFields) |->
                          IF Truthy(data[OptionalFields[i]])
                          THEN escapeHtml(data[OptionalFields[i]]).value ELSE EmptyStr],
         sellerName |-> escapeHtml(data.seller.name).value,
         sellerReturnLine |-> EscapedTruthy(
                [name |-> data.seller.name, street |-> AddressLines(data.seller)[1],
                 place |-> AddressLines(data.seller)[2], country |-> AddressLines(data.seller)[3]],
                <<"name", "street", "place", "country">>),
         recipientName |-> escapeHtml(data.buyer.name).value,
         recipientAddress |-> EscapedTruthy(
                [street |-> AddressLines(data.buyer)[1], place |-> AddressLines(data.buyer)[2],
                 country |-> AddressLines(data.buyer)[3]],
                <<"street", "place", "country">>),
         lineItemRows |-> [i \in 1..Len(data.lineItems) |->
                [f \in DOMAIN data.lineItems[i] |-> escapeHtml(data.lineItems[i][f]).value]],
         taxBreakdownRows |->
                IF data.taxBreakdown.k = "undefined" THEN <<>>
                ELSE [i \in 1..Len(data.taxBreakdown.kids) |->
                        [f \in DOMAIN data.taxBreakdown.kids[i] |->
                            escapeHtml(data.taxBreakdown.kids[i][f]).value]]]))

-----------------------------------------------------------------------------
(* XML inputs: a complete sample invoice, and the documents obtained from  *)
(* it by replacing any one node (by nothing, by an empty element, by a     *)
(* text or a number), by varying the tax registrations of the seller and   *)
(* of the buyer, the line items and the settlement-level taxes; and the    *)
(* documents that are not invoices, and the malformed text.                *)

OptKey(key, v) == IF v.k = "undefined" THEN NoKids ELSE key :> v

\* <e attr="a">t</e>
TextAttr(t, attr, a) == Obj(("#text" :> t) @@ (attr :> Str(a)))

DateTime(yyyymmdd) ==
    Obj([DateTimeString |-> TextAttr(Num(yyyymmdd), "@_format", <<"1", "0", "2">>)])

Registration(scheme, value) ==
    Obj([ID |-> Obj(OptKey("#text", value) @@ ("@_schemeID" :> Str(scheme)))])

RateOnly(rate) == Obj([RateApplicablePercent |-> rate])

Item(lineId, tradeTax) ==
    Obj([AssociatedDocumentLineDocument |-> Obj([LineID |-> Num(lineId)]),
         SpecifiedTradeProduct |-> Obj([Name |-> Str(<<"P", "e", "n">>)]),
         SpecifiedLineTradeAgreement |->
            Obj([NetPriceProductTradePrice |-> Obj([ChargeAmount |-> Num(10)])]),
         SpecifiedLineTradeDelivery |->
            Obj([BilledQuantity |-> TextAttr(Num(2), "@_unitCode", <<"C", "6", "2">>)]),
         SpecifiedLineTradeSettlement |->
            Obj(OptKey("ApplicableTradeTax", tradeTax)
                @@ [SpecifiedTradeSettlementLineMonetarySummation |->
                        Obj([LineTotalAmount |-> Num(20)])])])

Tax(rate, basis, amount) ==
    Obj(OptKey("RateApplicablePercent", rate)
        @@ [BasisAmount |-> Num(basis), CalculatedAmount |-> Num(amount)])

Party(name, regs) ==
    Obj([Name |-> Str(name),
         PostalTradeAddress |->
            Obj([LineOne |-> Str(<<"E", "l", "m", " ", "1">>), PostcodeCode |-> Num(10115),
                 CityName |-> Str(<<"B", "e", "r", "l", "i", "n">>), CountryID |-> Str(<<"D", "E">>)]),
         DefinedTradeContact |->
            Obj([PersonName |-> Str(<<"E", "v", "e">>),
                 EmailURIUniversalCommunication |-> Obj([URIID |-> Str(<<"e", "@", "x", ".", "d", "e">>)]),
                 TelephoneUniversalCommunication |-> Obj([CompleteNumber |-> Num(30)])])]
        @@ OptKey("SpecifiedTaxRegistration",
                  IF regs = <<>> THEN Undefined ELSE Arr(regs)))

Invoice(sellerRegs, buyerRegs, items, taxes) ==
    Obj([ExchangedDocumentContext |->
            Obj([BusinessProcessSpecifiedDocumentContextParameter |-> Obj([ID |-> Str(<<"A", "1">>)]),
                 GuidelineSpecifiedDocumentContextParameter |-> Obj([ID |-> Str(UrnEN16931)])]),
         ExchangedDocument |->
            Obj([ID |-> Num(42),
                 IssueDateTime |-> DateTime(20240115),
                 IncludedNote |-> Arr(<<Obj([Content |-> Str(<<"h", "i">>)])>>)]),
         SupplyChainTradeTransaction |->
            Obj(OptKey("IncludedSupplyChainTradeLineItem",
                       IF items = <<>> THEN Undefined ELSE Arr(items))
                @@ [ApplicableHeaderTradeAgreement |->
                        Obj([BuyerReference |-> Str(<<"r", "e", "f">>),
                             SellerTradeParty |-> Party(<<"S">>, sellerRegs),
                             BuyerTradeParty |-> Party(<<"B">>, buyerRegs),
                             BuyerOrderReferencedDocument |->
                                Obj([IssuerAssignedID |-> Num(7)])]),
                    ApplicableHeaderTradeDelivery |->
                        Obj([ActualDeliverySupplyChainEvent |->
                                Obj([OccurrenceDateTime |-> DateTime(20240110)])]),
                    ApplicableHeaderTradeSettlement |->
                        Obj(OptKey("ApplicableTradeTax",
                                   IF taxes = <<>> THEN Undefined ELSE Arr(taxes))
                            @@ [PaymentReference |-> Str(<<"R", "4", "2">>),
                                InvoiceCurrencyCode |-> Str(<<"E", "U", "R">>),
                                SpecifiedTradeSettlementPaymentMeans |->
                                    Obj([TypeCode |-> Num(58),
                                         PayeePartyCreditorFinancialAccount |->
                                            Obj([IBANID |-> Str(<<"D", "E", "0", "2">>)]),
                                         PayeeSpecifiedCreditorFinancialInstitution |->
                                            Obj([BICID |-> Str(<<"B", "I", "C">>), Name |-> Str(<<"B", "a", "n", "k">>)])]),
                                SpecifiedTradePaymentTerms |->
                                    Obj([Description |-> Str(<<"n", "e", "t">>),
                                         DueDateDateTime |-> DateTime(20240214)]),
                                SpecifiedTradeSettlementHeaderMonetarySummation |->
                                    Obj([TaxBasisTotalAmount |-> Num(20),
                                         TaxTotalAmount |-> Num(3),
                                         GrandTotalAmount |-> Num(23)])])])])

Document(root) == Obj(OptKey("CrossIndustryInvoice", root))

\* The tax registrations a party may list.
RegOptions ==
    {Registration(<<"V", "A">>, Str(<<"D", "E", "1">>)), Registration(<<"V", "A">>, Str(<<"D", "E", "2">>)),
     Registration(<<"V", "A">>, Undefined),
     Registration(<<"F", "C">>, Num(11)), Registration(<<"F", "C">>, Num(12)),
     Registration(<<"X", "X">>, Str(<<"D", "E", "3">>)),
     Obj([ID |-> Str(<<"D", "E", "4">>)]),
     EmptyStr}

\* The ways a line item's ApplicableTradeTax is materialized.
TradeTaxOptions ==
    <<Undefined,
      Arr(<<RateOnly(Num(19))>>),
      Arr(<<RateOnly(Num(0))>>),
      Arr(<<EmptyStr>>),
      Arr(<<Obj([CategoryCode |-> Str(<<"S">>)]), RateOnly(Num(7))>>),
      Arr(<<RateOnly(TextAttr(Num(16), "@_unit", <<"P">>)), RateOnly(Num(7))>>),
      RateOnly(Num(19)),
      Obj([CategoryCode |-> Str(<<"S">>)])>>

\* The line items: item j states its tax in the j-th way and has LineID j;
\* and the empty line-item element.
ItemOptions ==
    {Item(j, TradeTaxOptions[j]) : j \in 1..Len(TradeTaxOptions)} \cup {EmptyStr}

\* The settlement-level tax entries.
TaxOptions ==
    {Tax(Num(19), 20, 3), Tax(Num(0), 5, 0), Tax(Undefined, 9, 1), EmptyStr}

RECURSIVE SeqsOfLen(_, _)
SeqsOfLen(S, len) ==
    IF len = 0 THEN {<<>>}
    ELSE {Append(q, e) : q \in SeqsOfLen(S, len - 1), e \in S}

SeqsUpTo(S, max) == UNION {SeqsOfLen(S, len) : len \in 0..max}

SampleRegs == <<Registration(<<"V", "A">>, Str(<<"D", "E", "1">>))>>
SampleItems == <<Item(1, TradeTaxOptions[2])>>
SampleTaxes == <<Tax(Num(19), 20, 3)>>

SampleInvoice == Invoice(SampleRegs, SampleRegs, SampleItems, SampleTaxes)

\* The paths of the nodes of a tree.
RECURSIVE PathsIn(_)
PathsIn(t) ==
    {<<>>} \cup
    CASE t.k = "object" ->
            UNION {{<<key>> \o q : q \in PathsIn(t.kids[key])} : key \in DOMAIN t.kids}
      [] t.k = "array" ->
            UNION {{<<Digits[i]>> \o q : q \in PathsIn(t.kids[i])} : i \in 1..Len(t.kids)}
      [] OTHER -> {}

\* What the parser yields for content r of an element of that name.
Materialized(name, r) ==
    IF name \in ArrayNames /\ r.k \notin {"undefined", "array"} THEN Arr(<<r>>) ELSE r

\* Tree t with the node at path p replaced by r (removed: r undefined).
RECURSIVE ReplaceAt(_, _, _)
ReplaceAt(t, p, r) ==
    IF p = <<>> THEN r
    ELSE IF t.k = "array"
         THEN Arr([t.kids EXCEPT ![ArrayIndex(Head(p)) + 1] =
                        ReplaceAt(t.kids[ArrayIndex(Head(p)) + 1], Tail(p), r)])
    ELSE LET new == IF Len(p) = 1 THEN Materialized(Head(p), r)
                    ELSE ReplaceAt(t.kids[Head(p)], Tail(p), r)
         IN Obj([key \in (DOMAIN t.kids \ {Head(p)}) |-> t.kids[key]]
                @@ OptKey(Head(p), new))

Replacements == {Undefined, EmptyStr, Str(<<"x">>), Num(0)}

\* The sample document with one node replaced; an array's element is
\* replaced, never removed.
OneNodeReplaced ==
    {ReplaceAt(Document(SampleInvoice), p, r) :
        <<p, r>> \in {pr \in PathsIn(Document(SampleInvoice)) \X Replacements :
                        /\ pr[1] # <<>>
                        /\ ~(ArrayIndex(pr[1][Len(pr[1])]) >= 0 /\ pr[2] = Undefined)}}

OtherDocuments ==
    {Obj(NoKids),
     Obj([Invoice |-> SampleInvoice]),
     Obj([html |-> EmptyStr]),
     Document(Num(7)),
     Document(Arr(<<EmptyStr, EmptyStr>>)),
     Document(Obj([ExchangedDocument |-> EmptyStr]))}

\* The XML texts whose parsed document is the sample with one node replaced,
\* or no invoice; and the malformed text.
FixedXmlTexts ==
    {Malformed} \cup {WellFormed(d) : d \in OneNodeReplaced \cup OtherDocuments}

\* The XML text of the sample invoice with these tax registrations, line
\* items and settlement-level taxes.
InvoiceXml(sellerRegs, buyerRegs, items, taxes) ==
    WellFormed(Document(Invoice(sellerRegs, buyerRegs, items, taxes)))

\* The notes of a document: with a text, with the text 0, with an empty
\* Content, with two Content elements, without Content, and the empty note.
NoteOptions ==
    {Obj([Content |-> Str(<<"h", "i">>)]),
     Obj([Content |-> Num(0), SubjectCode |-> Str(<<"A", "A", "I">>)]),
     Obj([Content |-> EmptyStr]),
     Obj([Content |-> Arr(<<Str(<<"a">>), Str(<<"b">>)>>)]),
     Obj([SubjectCode |-> Str(<<"A", "A", "I">>)]),
     EmptyStr}

\* The payment-means type codes of a document: none, the empty element,
\* every code of the table, and other codes and texts.
TypeCodeOptions ==
    {Undefined, EmptyStr}
    \cup {Num(c) : c \in {10, 20, 30, 42, 48, 49, 57, 58, 59, 1, 97}}
    \cup {Str(<<"Z", "Z", "Z">>), Str(<<"c", "o", "n", "s", "t", "r", "u", "c", "t", "o", "r">>), Str(<<"t", "o", "S", "t", "r", "i", "n", "g">>)}

TypeCodePath ==
    <<"CrossIndustryInvoice", "SupplyChainTradeTransaction",
      "ApplicableHeaderTradeSettlement", "SpecifiedTradeSettlementPaymentMeans",
      "TypeCode">>

\* The XML text of the sample invoice with this payment-means type code.
PaymentMeansXml(typeCode) ==
    WellFormed(ReplaceAt(Document(SampleInvoice), TypeCodePath, typeCode))

\* The business-process identifiers of a document: none, the empty element,
\* every key of the profile table, and other identifiers.
ProfileIdOptions ==
    {Undefined, EmptyStr, Num(7)}
    \cup {Str(id) : id \in {<<"A", "1">>, <<"A", "2">>, <<"A", "3">>, <<"A", "4">>, <<"A", "5">>, UrnMinimum, UrnBasicWL,
                             UrnBasic, UrnEN16931, UrnExtended}}
    \cup {Str(<<"A", "6">>), Str(<<"M", "I", "N", "I", "M", "U", "M">>), Str(<<"v", "a", "l", "u", "e", "O", "f">>), Str(<<"_", "_", "p", "r", "o", "t", "o", "_", "_">>)}

ProfileIdPath ==
    <<"CrossIndustryInvoice", "ExchangedDocumentContext",
      "BusinessProcessSpecifiedDocumentContextParameter", "ID">>

\* The XML text of the sample invoice with this business-process identifier.
ProfileXml(id) ==
    WellFormed(ReplaceAt(Document(SampleInvoice), ProfileIdPath, id))

NotePath == <<"CrossIndustryInvoice", "ExchangedDocument", "IncludedNote">>

\* The XML text of the sample invoice with these notes.
NotesXml(notes) ==
    WellFormed(ReplaceAt(Document(SampleInvoice), NotePath,
                         IF notes = <<>> THEN Undefined ELSE Arr(notes)))

-----------------------------------------------------------------------------
(* PDF objects, as pdf-lib presents them. An object is a record            *)
(*   [t, entries, elems, chars, contents]  :                               *)
(*   t        its class: "PDFDict", "PDFArray", "PDFString",               *)
(*            "PDFHexString", "PDFRawStream", "PDFStream" (a stream of     *)
(*            another class), "PDFName", "PDFNumber"; "undefined": no      *)
(*            object                                                       *)
(*   entries  a dictionary's entries, by key                               *)
(*   elems    an array's elements                                          *)
(*   chars    the text a string object decodes to                          *)
(*   contents a stream's bytes                                             *)
(* Indirect references are resolved by every lookup and are not modelled.  *)

PdfObject(t) == [t |-> t, entries |-> NoKids, elems |-> <<>>, chars |-> <<>>, contents |-> <<>>]

PdfUndefined == PdfObject("undefined")
PDFDict(entries) == [PdfObject("PDFDict") EXCEPT !.entries = entries]
PDFArray(elems) == [PdfObject("PDFArray") EXCEPT !.elems = elems]
PDFString(chars) == [PdfObject("PDFString") EXCEPT !.chars = chars]
PDFHexString(chars) == [PdfObject("PDFHexString") EXCEPT !.chars = chars]
PDFRawStream(contents) == [PdfObject("PDFRawStream") EXCEPT !.contents = contents]
PDFStream(contents) == [PdfObject("PDFStream") EXCEPT !.contents = contents]
PDFName == PdfObject("PDFName")
PDFNumber == PdfObject("PDFNumber")

\* dict.get(key): the entry, or undefined
DictGet(dict, key) ==
    IF key \in DOMAIN dict.entries THEN dict.entries[key] ELSE PdfUndefined

\* array.get(index), index from 0: the element, or undefined
ArrayGet(array, index) ==
    IF index < Len(array.elems) THEN array.elems[index + 1] ELSE PdfUndefined

\* lookup(..., class) of PDFDict and PDFArray: the object when it is an
\* instance of the class; for any other object, and for no object, pdf-lib
\* throws UnexpectedObjectTypeError (it is lookupMaybe that yields undefined
\* for no object).
LookupTyped(object, class) ==
    IF object.t = class THEN Returned(object)
    ELSE Threw("UnexpectedObjectTypeError")

UpperCase == <<"A", "B", "C", "D", "E", "F", "G", "H", "I", "J", "K", "L", "M",
               "N", "O", "P", "Q", "R", "S", "T", "U", "V", "W", "X", "Y", "Z">>
LowerCase == <<"a", "b", "c", "d", "e", "f", "g", "h", "i", "j", "k", "l", "m",
               "n", "o", "p", "q", "r", "s", "t", "u", "v", "w", "x", "y", "z">>

toLowerCase(cs) ==
    [i \in 1..Len(cs) |->
        IF \E j \in 1..Len(UpperCase) : UpperCase[j] = cs[i]
        THEN LowerCase[CHOOSE j \in 1..Len(UpperCase) : UpperCase[j] = cs[i]]
        ELSE cs[i]]

endsWith(cs, suffix) ==
    /\ Len(cs) >= Len(suffix)
    /\ SubSeq(cs, Len(cs) - Len(suffix) + 1, Len(cs)) = suffix

\* new TextDecoder('utf-8').decode(bytes), for bytes that are ASCII
\* characters or the byte 255, which no UTF-8 sequence holds and which
\* decodes to the replacement character.
Utf8Decode(bytes) ==
    [i \in 1..Len(bytes) |->
        CASE bytes[i] = 60 -> "<"
          [] bytes[i] = 62 -> ">"
          [] bytes[i] = 97 -> "a"
          [] bytes[i] = 98 -> "b"
          [] OTHER -> "U+FFFD"]

\* The name a Names entry decodes to: '' unless it is a string object.
fileNameOf(nameObj) ==
    IF nameObj.t \in {"PDFString", "PDFHexString"} THEN nameObj.chars ELSE <<>>

\* The loop over the Names array, from index i.
RECURSIVE PairLoop(_, _)
PairLoop(namesArray, i) ==
    IF ~(i < Len(namesArray.elems)) THEN Returned(Undefined)
    ELSE
    LET fileName == fileNameOf(ArrayGet(namesArray, i)) IN
    IF ~endsWith(toLowerCase(fileName), <<".", "x", "m", "l">>) THEN PairLoop(namesArray, i + 2)
    ELSE
    LET fileSpec == LookupTyped(ArrayGet(namesArray, i + 1), "PDFDict") IN
    IF fileSpec.threw THEN fileSpec
    ELSE IF fileSpec.value.t = "undefined" THEN PairLoop(namesArray, i + 2)
    ELSE
    LET efDict == LookupTyped(DictGet(fileSpec.value, "EF"), "PDFDict") IN
    IF efDict.threw THEN efDict
    ELSE IF efDict.value.t = "undefined" THEN PairLoop(namesArray, i + 2)
    ELSE
    LET stream == DictGet(efDict.value, "F") IN
    IF stream.t = "undefined" THEN PairLoop(namesArray, i + 2)
    ELSE IF stream.t \in {"PDFRawStream", "PDFStream"}
         THEN Returned(Str(Utf8Decode(stream.contents)))
    ELSE PairLoop(namesArray, i + 2)

extractXmlAttachment(catalog) ==
    LET namesDict == LookupTyped(DictGet(catalog, "Names"), "PDFDict") IN
    IF namesDict.threw THEN namesDict
    ELSE IF namesDict.value.t = "undefined" THEN Returned(Undefined)
    ELSE
    LET embeddedFilesDict == LookupTyped(DictGet(namesDict.value, "EmbeddedFiles"), "PDFDict") IN
    IF embeddedFilesDict.threw THEN embeddedFilesDict
    ELSE IF embeddedFilesDict.value.t = "undefined" THEN Returned(Undefined)
    ELSE
    LET namesArray == LookupTyped(DictGet(embeddedFilesDict.value, "Names"), "PDFArray") IN
    IF namesArray.threw THEN namesArray
    ELSE IF namesArray.value.t = "undefined" THEN Returned(Undefined)
    ELSE PairLoop(namesArray.value, 0)

-----------------------------------------------------------------------------
(* PDF inputs: catalogs whose chain Names -> EmbeddedFiles -> Names is     *)
(* broken at each step, and catalogs with every Names array of at most     *)
(* MaxNames entries drawn from names and file specifications.              *)

FileSpec(efEntries) == PDFDict([EF |-> PDFDict(efEntries)])

NameObjects ==
    {PDFString(<<"a", ".", "x", "m", "l">>), PDFHexString(<<"B", ".", "X", "M", "L">>), PDFString(<<"c", ".", "p", "d", "f">>), PDFName}

FileSpecObjects ==
    {FileSpec([F |-> PDFRawStream(<<60, 97, 62>>)]),
     FileSpec([F |-> PDFStream(<<98, 255>>)]),
     FileSpec([F |-> PDFNumber]),
     FileSpec(NoKids),
     PDFDict(NoKids)}

NamesEntries == NameObjects \cup FileSpecObjects

Catalog(names) == PDFDict(IF names.t = "undefined" THEN NoKids ELSE [Names |-> names])
NamesDict(embeddedFiles) == PDFDict(IF embeddedFiles.t = "undefined" THEN NoKids ELSE [EmbeddedFiles |-> embeddedFiles])
EmbeddedFiles(names) == PDFDict(IF names.t = "undefined" THEN NoKids ELSE [Names |-> names])

CatalogsUpTo(maxNames) ==
    {Catalog(PdfUndefined), Catalog(PDFArray(<<>>)),
     Catalog(NamesDict(PdfUndefined)),
     Catalog(NamesDict(EmbeddedFiles(PdfUndefined))),
     Catalog(NamesDict(EmbeddedFiles(PDFName))),
     Catalog(NamesDict(PDFDict([Kids |-> PDFArray(<<>>)])))}
    \cup {Catalog(NamesDict(EmbeddedFiles(PDFArray(entries)))) :
            entries \in SeqsUpTo(NamesEntries, maxNames)}

-----------------------------------------------------------------------------
(* The inputs of the operations a specification does not run *)

NoXml == Malformed
NoPdf == PdfUndefined

NoPanel == [created |-> FALSE, title |-> <<>>, html |-> Undefined]

\* The preview command is not running.
NoPreview ==
    /\ pc = "idle"
    /\ xmlContent = Undefined
    /\ invoiceData = Undefined
    /\ calls = <<>>
    /\ shown = <<>>
    /\ panel = NoPanel

-----------------------------------------------------------------------------
(* SpecTree: dig and text applied to every generic tree and path *)

InitTree ==
    /\ op = "none"
    /\ tree \in TreesUpTo(MaxNodes)
    /\ path \in PathsUpTo(MaxPathLen)
    /\ xml = NoXml
    /\ pdf = NoPdf
    /\ ret = NotRun
    /\ NoPreview

Dig ==
    /\ op = "none"
    /\ op' = "dig"
    /\ ret' = Returned(dig(tree, path))
    /\ UNCHANGED <<tree, path, xml, pdf>>
    /\ UNCHANGED preview

Text ==
    /\ op = "none"
    /\ op' = "text"
    /\ ret' = Returned(Str(text(tree, path)))
    /\ UNCHANGED <<tree, path, xml, pdf>>
    /\ UNCHANGED preview

NextTree == Dig \/ Text

SpecTree == InitTree /\ [][NextTree]_vars

-----------------------------------------------------------------------------
(* SpecXml: isZugferdXml and parseZugferdXml applied to every XML input *)

InitXml ==
    /\ op = "none"
    /\ tree = Undefined
    /\ path = <<>>
    /\ \/ xml \in FixedXmlTexts
       \/ \E regs \in SeqsUpTo(RegOptions, MaxRegs) :
            xml \in {InvoiceXml(regs, SampleRegs, SampleItems, SampleTaxes),
                     InvoiceXml(SampleRegs, regs, SampleItems, SampleTaxes)}
       \/ \E items \in SeqsUpTo(ItemOptions, MaxItems) :
            xml = InvoiceXml(SampleRegs, SampleRegs, items, SampleTaxes)
       \/ \E taxes \in SeqsUpTo(TaxOptions, MaxTaxes) :
            xml = InvoiceXml(SampleRegs, SampleRegs, SampleItems, taxes)
       \/ \E notes \in SeqsUpTo(NoteOptions, MaxNotes) :
            xml = NotesXml(notes)
       \/ \E typeCode \in TypeCodeOptions :
            xml = PaymentMeansXml(typeCode)
       \/ \E id \in ProfileIdOptions :
            xml = ProfileXml(id)
    /\ pdf = NoPdf
    /\ ret = NotRun
    /\ NoPreview

IsZugferdXml ==
    /\ op = "none"
    /\ op' = "isZugferdXml"
    /\ ret' = Returned(Bool(isZugferdXml(xml)))
    /\ UNCHANGED <<tree, path, xml, pdf>>
    /\ UNCHANGED preview

ParseZugferdXml ==
    /\ op = "none"
    /\ op' = "parseZugferdXml"
    /\ ret' = parseZugferdXml(xml)
    /\ UNCHANGED <<tree, path, xml, pdf>>
    /\ UNCHANGED preview

NextXml == IsZugferdXml \/ ParseZugferdXml

SpecXml == InitXml /\ [][NextXml]_vars

-----------------------------------------------------------------------------
(* SpecPdf: extractXmlAttachment applied to every PDF input *)

InitPdf ==
    /\ op = "none"
    /\ tree = Undefined
    /\ path = <<>>
    /\ xml = NoXml
    /\ pdf \in CatalogsUpTo(MaxNames)
    /\ ret = NotRun
    /\ NoPreview

ExtractXmlAttachment ==
    /\ op = "none"
    /\ op' = "extractXmlAttachment"
    /\ ret' = extractXmlAttachment(pdf)
    /\ UNCHANGED <<tree, path, xml, pdf>>
    /\ UNCHANGED preview

NextPdf == ExtractXmlAttachment

SpecPdf == InitPdf /\ [][NextPdf]_vars

-----------------------------------------------------------------------------
(* SpecPreview: the command openZugferdPreview, statement by statement, on *)
(* every PDF file of PreviewFiles whose attachment, when it has one with   *)
(* text, holds an XML text of PreviewXmlTexts.                             *)
(*   pdf  the catalog of the document; NoPdf: the file cannot be read or   *)
(*        is no PDF document                                               *)
(*   xml  what the XML parser does with the text of the attachment         *)

\* A catalog with one attachment 'a.xml' of these bytes.
AttachmentCatalog(bytes) ==
    Catalog(NamesDict(EmbeddedFiles(PDFArray(
        <<PDFString(<<"a", ".", "x", "m", "l">>), FileSpec([F |-> PDFRawStream(bytes)])>>))))

PreviewFiles(maxNames) ==
    {NoPdf, AttachmentCatalog(<<>>)} \cup CatalogsUpTo(maxNames)

PreviewXmlTexts ==
    {Malformed,
     WellFormed(Obj([html |-> EmptyStr])),
     WellFormed(Document(EmptyStr)),
     WellFormed(Document(Num(7))),
     WellFormed(Document(SampleInvoice)),
     NotesXml(<<>>),
     PaymentMeansXml(Str(<<"Z", "Z", "Z">>)),
     PaymentMeansXml(Str(<<"c", "o", "n", "s", "t", "r", "u", "c", "t", "o", "r">>)),
     ProfileXml(Str(<<"v", "a", "l", "u", "e", "O", "f">>)),
     ProfileXml(Str(<<"<", "A", "1", ">">>))}

InitPreview ==
    /\ op = "openZugferdPreview"
    /\ tree = Undefined
    /\ path = <<>>
    /\ xml \in PreviewXmlTexts
    /\ pdf \in PreviewFiles(MaxPreviewNames)
    /\ ret = NotRun
    /\ pc = "load"
    /\ xmlContent = Undefined
    /\ invoiceData = Undefined
    /\ calls = <<>>
    /\ shown = <<>>
    /\ panel = NoPanel

Message(kind, message) == [kind |-> kind, message |-> message]

\* The catch block: the error's message is shown and the command ends.
Catch(error) ==
    /\ shown' = Append(shown, Message("error", <<"Error reading PDF: ", error.s[1]>>))
    /\ pc' = "done"

\* fs.readFileSync(pdfUri.fsPath); await PDFDocument.load(pdfData)
Load ==
    /\ pc = "load"
    /\ calls' = Append(calls, "PDFDocument.load")
    /\ IF pdf = NoPdf
       THEN /\ ret' = Threw("Failed to parse PDF document")
            /\ Catch(ret'.value)
       ELSE /\ ret' = Returned(Undefined)
            /\ pc' = "extract"
            /\ UNCHANGED shown
    /\ UNCHANGED <<op, tree, path, xml, pdf, xmlContent, invoiceData, panel>>

\* const xmlContent = extractXmlAttachment(pdfDoc)
Extract ==
    /\ pc = "extract"
    /\ calls' = Append(calls, "extractXmlAttachment")
    /\ ret' = extractXmlAttachment(pdf)
    /\ IF ret'.threw
       THEN Catch(ret'.value) /\ UNCHANGED xmlContent
       ELSE xmlContent' = ret'.value /\ pc' = "content" /\ UNCHANGED shown
    /\ UNCHANGED <<op, tree, path, xml, pdf, invoiceData, panel>>

\* if (!xmlContent) { showInformationMessage(...); return; }
CheckContent ==
    /\ pc = "content"
    /\ IF ~Truthy(xmlContent)
       THEN /\ shown' = Append(shown, Message("information", <<"No ZUGFeRD XML found">>))
            /\ pc' = "done"
       ELSE pc' = "valid" /\ UNCHANGED shown
    /\ UNCHANGED <<op, tree, path, xml, pdf, ret, xmlContent, invoiceData, calls, panel>>

\* if (!isZugferdXml(xmlContent)) { showWarningMessage(...); return; }
CheckValid ==
    /\ pc = "valid"
    /\ calls' = Append(calls, "isZugferdXml")
    /\ ret' = Returned(Bool(isZugferdXml(xml)))
    /\ IF ~isZugferdXml(xml)
       THEN /\ shown' = Append(shown, Message("warning", <<"not a valid ZUGFeRD/Factur-X document">>))
            /\ pc' = "done"
       ELSE pc' = "parse" /\ UNCHANGED shown
    /\ UNCHANGED <<op, tree, path, xml, pdf, xmlContent, invoiceData, panel>>

\* const invoiceData = parseZugferdXml(xmlContent)
Parse ==
    /\ pc = "parse"
    /\ calls' = Append(calls, "parseZugferdXml")
    /\ ret' = parseZugferdXml(xml)
    /\ IF ret'.threw
       THEN Catch(ret'.value) /\ UNCHANGED invoiceData
       ELSE invoiceData' = ret'.value /\ pc' = "panel" /\ UNCHANGED shown
    /\ UNCHANGED <<op, tree, path, xml, pdf, xmlContent, panel>>

\* const panel = vscode.window.createWebviewPanel(...)
CreatePanel ==
    /\ pc = "panel"
    /\ calls' = Append(calls, "createWebviewPanel")
    /\ panel' = [created |-> TRUE,
                 title |-> <<"I", "n", "v", "o", "i", "c", "e", " ">> \o invoiceData.invoiceNumber.s,
                 html |-> Undefined]
    /\ pc' = "render"
    /\ UNCHANGED <<op, tree, path, xml, pdf, ret, xmlContent, invoiceData, shown>>

\* panel.webview.html = renderInvoiceHtml(invoiceData, cssUri.toString())
Render ==
    /\ pc = "render"
    /\ calls' = Append(calls, "renderInvoiceHtml")
    /\ ret' = renderInvoiceHtml(invoiceData, "media/invoice.css")
    /\ IF ret'.threw
       THEN Catch(ret'.value) /\ UNCHANGED panel
       ELSE /\ panel' = [panel EXCEPT !.html = ret'.value]
            /\ pc' = "done"
            /\ UNCHANGED shown
    /\ UNCHANGED <<op, tree, path, xml, pdf, xmlContent, invoiceData>>

NextPreview ==
    Load \/ Extract \/ CheckContent \/ CheckValid \/ Parse \/ CreatePanel \/ Render

SpecPreview == InitPreview /\ [][NextPreview]_vars

-----------------------------------------------------------------------------
(* Claims about the generic tree accessor (SpecTree) *)

\* The child of node v that segment seg names: a mapping's entry of that
\* key, a sequence's element of that decimal index.
Child(v, seg) ==
    IF v.k = "object" /\ seg \in DOMAIN v.kids THEN v.kids[seg]
    ELSE IF v.k = "array" /\ \E i \in 1..Len(v.kids) : Digits[i] = seg
         THEN v.kids[CHOOSE i \in 1..Len(v.kids) : Digits[i] = seg]
    ELSE Undefined

\* The node a path resolves to in a tree, prefix by prefix.
RECURSIVE NodeAt(_, _)
NodeAt(t, p) ==
    IF p = <<>> THEN t
    ELSE Child(NodeAt(t, SubSeq(p, 1, Len(p) - 1)), p[Len(p)])

Prefix(p, i) == SubSeq(p, 1, i)

-----------------------------------------------------------------------------
(* Claims about the CII extractor (SpecXml) *)

RootPresent == xml.wellFormed /\ "CrossIndustryInvoice" \in DOMAIN xml.parsed.kids

\* The text content of a node: of a scalar, its characters; of a mapping with
\* a '#text' entry, that entry's; of anything else, none.
TextContent(node) ==
    CASE node.k = "string" -> node.s
      [] node.k = "number" -> DecimalChars(node.n)
      [] node.k = "object" /\ "#text" \in DOMAIN node.kids -> String(node.kids["#text"])
      [] OTHER -> <<>>

\* The occurrences of a repeatable element: none when it is absent, the
\* elements of the sequence it is materialized as, else itself.
Occurrences(node) ==
    CASE node.k = "undefined" -> <<>>
      [] node.k = "array" -> node.kids
      [] OTHER -> <<node>>

TransactionPath == <<"CrossIndustryInvoice", "SupplyChainTradeTransaction">>
AgreementPath == TransactionPath \o <<"ApplicableHeaderTradeAgreement">>
SettlementPath == TransactionPath \o <<"ApplicableHeaderTradeSettlement">>

SellerRegistrations ==
    Occurrences(NodeAt(xml.parsed,
        AgreementPath \o <<"SellerTradeParty", "SpecifiedTaxRegistration">>))
BuyerRegistrations ==
    Occurrences(NodeAt(xml.parsed,
        AgreementPath \o <<"BuyerTradeParty", "SpecifiedTaxRegistration">>))
LineItemElements ==
    Occurrences(NodeAt(xml.parsed, TransactionPath \o <<"IncludedSupplyChainTradeLineItem">>))
SettlementTaxes ==
    Occurrences(NodeAt(xml.parsed, SettlementPath \o <<"ApplicableTradeTax">>))

\* C1 as stated: on a well-formed text parseZugferdXml raises, and then its
\* 'not valid' error, only when the root element is missing from the parsed
\* tree; whenever the root element is present, whatever its content, it
\* returns an InvoiceData.
C1_RaisesOnlyWhenRootMissing ==
    (op = "parseZugferdXml" /\ xml.wellFormed) =>
        /\ ret.threw <=> ~RootPresent
        /\ ret.threw => ret.value = Err(NotValidError)

\* C2: isZugferdXml returns true iff the text parses and the parsed tree has
\* the CrossIndustryInvoice element, returns false otherwise, and never raises.
C2_ValidIffRootPresent ==
    op = "isZugferdXml" =>
        /\ ~ret.threw
        /\ ret.value = Bool(RootPresent)

\* C2's case: the minimal document, an empty root element, is valid.
C2_Witness ==
    /\ op = "isZugferdXml"
    /\ xml = WellFormed(Document(EmptyStr))
    /\ ret.value = Bool(TRUE)

IsText(v) == v.k = "string"

IsAddress(a) ==
    IsText(a.name) /\ IsText(a.street) /\ IsText(a.postalCode) /\ IsText(a.city)
    /\ IsText(a.country)

\* C7: in every InvoiceData returned, invoiceNumber, invoiceDate, currency,
\* totalNet, totalTax and totalGross are text (possibly empty, never absent)
\* and seller and buyer are addresses of five texts.
C7_RequiredFieldsAreText ==
    (op = "parseZugferdXml" /\ ~ret.threw) =>
        /\ IsText(ret.value.invoiceNumber) /\ IsText(ret.value.invoiceDate)
        /\ IsText(ret.value.currency)
        /\ IsText(ret.value.totalNet) /\ IsText(ret.value.totalTax)
        /\ IsText(ret.value.totalGross)
        /\ IsAddress(ret.value.seller) /\ IsAddress(ret.value.buyer)

\* C7's case: an invoice without its trade transaction is extracted, with
\* empty totals, currency and party names.
C7_Witness ==
    /\ op = "parseZugferdXml" /\ ~ret.threw
    /\ NodeAt(xml.parsed, <<"CrossIndustryInvoice">>).k = "object"
    /\ NodeAt(xml.parsed, TransactionPath).k = "undefined"
    /\ ret.value.invoiceNumber = Str(<<"4", "2">>)
    /\ ret.value.totalGross = EmptyStr /\ ret.value.currency = EmptyStr
    /\ ret.value.seller.name = EmptyStr /\ ret.value.buyer.country = EmptyStr

HasScheme(reg, scheme) == Child(Child(reg, "ID"), "@_schemeID") = Str(scheme)

WithScheme(regs, scheme) == {i \in 1..Len(regs) : HasScheme(regs[i], scheme)}

Last(S) == CHOOSE i \in S : \A j \in S : j <= i
First(S) == CHOOSE i \in S : \A j \in S : i <= j

\* The field for the registration selected: absent when there is none or its
\* ID text is empty.
IdField(regs, S, i) ==
    IF S = {} \/ TextContent(Child(regs[i], "ID")) = <<>> THEN Undefined
    ELSE Str(TextContent(Child(regs[i], "ID")))

\* C8: sellerVatId is the ID text of the last seller registration of scheme
\* 'VA', sellerTaxId that of the last of scheme 'FC', buyerVatId that of the
\* first buyer registration of scheme 'VA'; a field whose scheme does not
\* occur, or whose selected ID text is empty, is absent.
C8_TaxIdsLastSellerFirstBuyer ==
    (op = "parseZugferdXml" /\ ~ret.threw) =>
        LET sVA == WithScheme(SellerRegistrations, <<"V", "A">>)
            sFC == WithScheme(SellerRegistrations, <<"F", "C">>)
            bVA == WithScheme(BuyerRegistrations, <<"V", "A">>)
        IN  /\ ret.value.sellerVatId = IdField(SellerRegistrations, sVA, Last(sVA))
            /\ ret.value.sellerTaxId = IdField(SellerRegistrations, sFC, Last(sFC))
            /\ ret.value.buyerVatId = IdField(BuyerRegistrations, bVA, First(bVA))

\* C8's case: a seller with two 'VA' registrations and no 'FC' one.
C8_Witness ==
    /\ op = "parseZugferdXml" /\ ~ret.threw
    /\ SellerRegistrations =
         <<Registration(<<"V", "A">>, Str(<<"D", "E", "1">>)),
           Registration(<<"V", "A">>, Str(<<"D", "E", "2">>))>>
    /\ ret.value.sellerVatId = Str(<<"D", "E", "2">>)
    /\ ret.value.sellerTaxId = Undefined

\* The rate a line item states: that of the first element when its
\* ApplicableTradeTax is a sequence, that of the object when it is one.
LineRateText(item) ==
    LET tradeTax == NodeAt(item, <<"SpecifiedLineTradeSettlement", "ApplicableTradeTax">>)
        stated == IF tradeTax.k = "array"
                  THEN (IF Len(tradeTax.kids) > 0 THEN tradeTax.kids[1] ELSE Undefined)
                  ELSE tradeTax
    IN TextContent(Child(stated, "RateApplicablePercent"))

\* C9: lineItems has one entry per line-item element, in source order; an
\* entry's taxRate is the item's rate text followed by '%' when that text is
\* not empty, and '' when no rate is stated.
C9_LineItemTaxRate ==
    (op = "parseZugferdXml" /\ ~ret.threw) =>
        /\ Len(ret.value.lineItems) = Len(LineItemElements)
        /\ \A i \in 1..Len(LineItemElements) :
            LET item == LineItemElements[i]
                entry == ret.value.lineItems[i]
            IN  /\ entry.position.s =
                     TextContent(NodeAt(item, <<"AssociatedDocumentLineDocument", "LineID">>))
                /\ LineRateText(item) # <<>>
                     => entry.taxRate = Str(LineRateText(item) \o <<"%">>)
                /\ LineRateText(item) = <<>> => entry.taxRate = EmptyStr

\* C9's case: an item that states no rate, then an item whose
\* ApplicableTradeTax is a single object.
C9_Witness ==
    /\ op = "parseZugferdXml" /\ ~ret.threw
    /\ Len(LineItemElements) = 2
    /\ NodeAt(LineItemElements[2],
              <<"SpecifiedLineTradeSettlement", "ApplicableTradeTax">>).k = "object"
    /\ ret.value.lineItems[1].taxRate = EmptyStr
    /\ ret.value.lineItems[2].taxRate = Str(<<"1", "9", "%">>)
    /\ ret.value.lineItems[2].position = Str(<<"7">>)

\* C10: taxBreakdown has one entry per settlement-level ApplicableTradeTax
\* occurrence, in source order, each entry's rate being the rate text followed
\* by '%' whether or not a rate is stated; without any occurrence the field is
\* absent.
C10_TaxBreakdownPerOccurrence ==
    (op = "parseZugferdXml" /\ ~ret.threw) =>
        IF SettlementTaxes = <<>> THEN ret.value.taxBreakdown = Undefined
        ELSE /\ ret.value.taxBreakdown.k = "array"
             /\ Len(ret.value.taxBreakdown.kids) = Len(SettlementTaxes)
             /\ \A i \in 1..Len(SettlementTaxes) :
                 LET t == SettlementTaxes[i]
                     entry == ret.value.taxBreakdown.kids[i]
                 IN  /\ entry.rate =
                          Str(TextContent(Child(t, "RateApplicablePercent")) \o <<"%">>)
                     /\ entry.basis = Str(TextContent(Child(t, "BasisAmount")))
                     /\ entry.amount = Str(TextContent(Child(t, "CalculatedAmount")))

\* C10's case: a tax entry with a rate, then one without.
C10_Witness ==
    /\ op = "parseZugferdXml" /\ ~ret.threw
    /\ Len(SettlementTaxes) = 2
    /\ ret.value.taxBreakdown.k = "array"
    /\ ret.value.taxBreakdown.kids[1].rate = Str(<<"1", "9", "%">>)
    /\ ret.value.taxBreakdown.kids[2].rate = Str(<<"%">>)
    /\ ret.value.taxBreakdown.kids[2].basis = Str(<<"9">>)

NoteElements == Occurrences(NodeAt(xml.parsed, NotePath))

\* The non-empty Content texts of a sequence of notes, in order, with a
\* newline between one and the next.
RECURSIVE JoinedContents(_)
JoinedContents(noteElements) ==
    IF noteElements = <<>> THEN <<>>
    ELSE LET content == TextContent(Child(Head(noteElements), "Content"))
             rest == JoinedContents(Tail(noteElements))
         IN IF content = <<>> THEN rest
            ELSE IF rest = <<>> THEN content
            ELSE content \o <<"\n">> \o rest

\* C11: notes is the newline-join, in source order, of the non-empty Content
\* texts of the IncludedNote elements; it is absent, never the empty string,
\* when no note has a non-empty text.
C11_NotesJoinNonEmptyContents ==
    (op = "parseZugferdXml" /\ ~ret.threw) =>
        IF JoinedContents(NoteElements) = <<>>
        THEN ret.value.notes = Undefined
        ELSE ret.value.notes = Str(JoinedContents(NoteElements))

\* C11's case: three notes, the middle one with an empty text.
C11_Witness ==
    /\ op = "parseZugferdXml" /\ ~ret.threw
    /\ Len(NoteElements) = 3
    /\ TextContent(Child(NoteElements[2], "Content")) = <<>>
    /\ ret.value.notes = Str(<<"h", "i", "\n", "0">>)

\* C11's other case: notes are present and none has a text.
C11_WitnessAllEmpty ==
    /\ op = "parseZugferdXml" /\ ~ret.threw
    /\ Len(NoteElements) = 2
    /\ ret.value.notes = Undefined

TypeCodeText == TextContent(NodeAt(xml.parsed, TypeCodePath))

TableCodes ==
    {<<"1", "0">>, <<"2", "0">>, <<"3", "0">>, <<"4", "2">>, <<"4", "8">>, <<"4", "9">>, <<"5", "7">>, <<"5", "8">>, <<"5", "9">>}

\* C12 as stated: paymentMeansType is the table's label when the type code is
\* one of the table's codes, the code text itself for every other non-empty
\* code, and absent when the code is absent or empty.
C12_PaymentMeansLabelOrCode ==
    (op = "parseZugferdXml" /\ ~ret.threw) =>
        /\ TypeCodeText \in TableCodes
              => ret.value.paymentMeansType = Str(paymentMeansNames[TypeCodeText])
        /\ (TypeCodeText \notin TableCodes /\ TypeCodeText # <<>>)
              => ret.value.paymentMeansType = Str(TypeCodeText)
        /\ TypeCodeText = <<>> => ret.value.paymentMeansType = Undefined

\* The part of C12 that holds: the table's codes, the codes that name no
\* member of Object.prototype, and the absent or empty code.
C12_ExceptInheritedNames ==
    (op = "parseZugferdXml" /\ ~ret.threw /\ TypeCodeText \notin ObjectPrototypeNames) =>
        /\ TypeCodeText \in TableCodes
              => ret.value.paymentMeansType = Str(paymentMeansNames[TypeCodeText])
        /\ (TypeCodeText \notin TableCodes /\ TypeCodeText # <<>>)
              => ret.value.paymentMeansType = Str(TypeCodeText)
        /\ TypeCodeText = <<>> => ret.value.paymentMeansType = Undefined

\* The type code 'constructor' yields a function, not the code text.
C12_InheritedNameYieldsFunction ==
    /\ op = "parseZugferdXml" /\ ~ret.threw
    /\ TypeCodeText = <<"c", "o", "n", "s", "t", "r", "u", "c", "t", "o", "r">>
    /\ ret.value.paymentMeansType = Function(<<"c", "o", "n", "s", "t", "r", "u", "c", "t", "o", "r">>)

ProfileIdText == TextContent(NodeAt(xml.parsed, ProfileIdPath))

ProfileKeys ==
    {<<"A", "1">>, <<"A", "2">>, <<"A", "3">>, <<"A", "4">>, <<"A", "5">>,
     UrnMinimum, UrnBasicWL, UrnBasic, UrnEN16931, UrnExtended}

\* C13 as stated: zugferdProfile is the table's label when the
\* business-process identifier is one of the profile table's keys, the
\* identifier text itself for every identifier that is not a key of the
\* table, and absent when the identifier is absent or empty.
C13_ProfileLabelOrIdentifier ==
    (op = "parseZugferdXml" /\ ~ret.threw) =>
        /\ ProfileIdText \in ProfileKeys
              => ret.value.zugferdProfile = Str(profileNames[ProfileIdText])
        /\ (ProfileIdText \notin ProfileKeys /\ ProfileIdText # <<>>)
              => ret.value.zugferdProfile = Str(ProfileIdText)
        /\ ProfileIdText = <<>> => ret.value.zugferdProfile = Undefined

\* The part of C13 that holds: the identifiers that name no member of
\* Object.prototype.
C13_ExceptInheritedNames ==
    (op = "parseZugferdXml" /\ ~ret.threw /\ ProfileIdText \notin ObjectPrototypeNames) =>
        /\ ProfileIdText \in ProfileKeys
              => ret.value.zugferdProfile = Str(profileNames[ProfileIdText])
        /\ (ProfileIdText \notin ProfileKeys /\ ProfileIdText # <<>>)
              => ret.value.zugferdProfile = Str(ProfileIdText)
        /\ ProfileIdText = <<>> => ret.value.zugferdProfile = Undefined

\* The identifier 'valueOf' yields a function, not the identifier text.
C13_InheritedNameYieldsFunction ==
    /\ op = "parseZugferdXml" /\ ~ret.threw
    /\ ProfileIdText = <<"v", "a", "l", "u", "e", "O", "f">>
    /\ ret.value.zugferdProfile = Function(<<"v", "a", "l", "u", "e", "O", "f">>)

\* C14 as stated: the validity check and the extractor agree: on every XML
\* text for which isZugferdXml returns true, parseZugferdXml returns an
\* InvoiceData and does not raise.
C14_ValidTextIsExtracted ==
    (op = "parseZugferdXml" /\ isZugferdXml(xml)) => ~ret.threw

\* The text the two disagree on: the empty root element is valid, and the
\* extractor raises its 'not valid' error on it.
C14_ValidTextRejected ==
    /\ op = "parseZugferdXml"
    /\ xml = WellFormed(Document(EmptyStr))
    /\ isZugferdXml(xml)
    /\ ret = Threw(NotValidError)

-----------------------------------------------------------------------------
(* Claims about the PDF attachment locator (SpecPdf) *)

\* The flat Names array of the catalog, when the chain to it is intact.
NamesArrayOf(catalog) ==
    DictGet(DictGet(DictGet(catalog, "Names"), "EmbeddedFiles"), "Names")

\* The stream of the pair at index i: the F entry of the EF dictionary of
\* its file specification.
PairStream(names, i) == DictGet(DictGet(ArrayGet(names, i + 1), "EF"), "F")

\* The pair at index i names an XML file and holds a stream.
Matches(names, i) ==
    /\ ArrayGet(names, i).t \in {"PDFString", "PDFHexString"}
    /\ endsWith(toLowerCase(ArrayGet(names, i).chars), <<".", "x", "m", "l">>)
    /\ PairStream(names, i).t \in {"PDFRawStream", "PDFStream"}

PairIndexes(names) == {i \in 0..(Len(names.elems) - 1) : i % 2 = 0}

\* C5 as stated: the result is the decoded content of the first pair whose
\* name ends in '.xml', case-insensitively, and whose file specification
\* leads through EF and F to a stream; every other pair is skipped, and the
\* result is absent when no pair is left.
C5_FirstMatchingPairElseAbsent ==
    (op = "extractXmlAttachment" /\ NamesArrayOf(pdf).t = "PDFArray") =>
        LET names == NamesArrayOf(pdf)
            hits == {i \in PairIndexes(names) : Matches(names, i)}
        IN  IF hits = {} THEN ret = Returned(Undefined)
            ELSE ret = Returned(Str(Utf8Decode(PairStream(names, First(hits)).contents)))

\* C6 as stated: extractXmlAttachment never raises, whatever the catalog and
\* the Names array hold.
C6_LocatorNeverRaises ==
    op = "extractXmlAttachment" => ~ret.threw

-----------------------------------------------------------------------------
(* Claims about the PDF preview command (SpecPreview) *)

\* The user-facing outcomes so far: the messages shown and the panel created.
Outcomes == Len(shown) + (IF panel.created THEN 1 ELSE 0)

Called(name) == \E i \in 1..Len(calls) : calls[i] = name

\* The locator's result on the file is a non-empty text.
LocatorFoundText ==
    /\ pdf # NoPdf
    /\ ~extractXmlAttachment(pdf).threw
    /\ extractXmlAttachment(pdf).value.k = "string"
    /\ extractXmlAttachment(pdf).value.s # <<>>

\* The outcome the order of checks prescribes for the file: an error when
\* reading or the locator raises; else the information message when the
\* locator's result is absent or empty; else the warning when the text is not
\* valid; else an error when the extractor or the renderer raises; else the
\* panel.
Prescribed ==
    IF pdf = NoPdf \/ extractXmlAttachment(pdf).threw THEN "error"
    ELSE IF ~LocatorFoundText THEN "information"
    ELSE IF ~isZugferdXml(xml) THEN "warning"
    ELSE IF parseZugferdXml(xml).threw THEN "error"
    ELSE IF renderInvoiceHtml(parseZugferdXml(xml).value, "media/invoice.css").threw
         THEN "error"
    ELSE "panel"

\* The run has ended in the prescribed outcome and in no other.
EndedAsPrescribed ==
    /\ Outcomes = 1
    /\ IF Prescribed = "panel"
       THEN /\ panel.created
            /\ panel.html = renderInvoiceHtml(parseZugferdXml(xml).value,
                                               "media/invoice.css").value
       ELSE /\ ~panel.created
            /\ shown[1].kind = Prescribed

\* A panel exists only for a non-empty text that passed the validity check.
PanelOnlyForValidText ==
    panel.created => (LocatorFoundText /\ Called("isZugferdXml") /\ isZugferdXml(xml))

\* The extractor is called only right after the validity check has passed.
ExtractorOnlyAfterValidityCheck ==
    \A i \in 1..Len(calls) :
        calls[i] = "parseZugferdXml"
            => (i > 1 /\ calls[i - 1] = "isZugferdXml" /\ isZugferdXml(xml))

\* C15 as stated: every run of openZugferdPreview ends in exactly one
\* user-facing outcome, by the fixed order of checks (information message for
\* an absent or empty text, else warning for a text that is not valid, else a
\* panel whose HTML is set from the extracted data, an error message when a
\* step raises); a panel is never created unless the locator returned a
\* non-empty text that isZugferdXml accepted, and the extractor is never called
\* before the validity check has passed.
C15_OneOutcomeInOrderOfChecks ==
    /\ pc = "done" => EndedAsPrescribed
    /\ Outcomes <= 1
    /\ PanelOnlyForValidText
    /\ ExtractorOnlyAfterValidityCheck

\* The part of C15 that holds in every run: the order of the checks, the
\* guard of the panel and of the extractor, and one outcome at the end of
\* every run in which the renderer does not raise.
C15_ExceptWhenRendererRaises ==
    /\ (pc = "done" /\ ~(Called("renderInvoiceHtml") /\ ret.threw)) => EndedAsPrescribed
    /\ ~(Called("renderInvoiceHtml") /\ ret.threw) => Outcomes <= 1
    /\ PanelOnlyForValidText
    /\ ExtractorOnlyAfterValidityCheck

\* The run that ends in two outcomes: the renderer raises after the panel was
\* created, and the user has an empty panel and an error message.
C15_EmptyPanelAndErrorMessage ==
    /\ pc = "done"
    /\ panel.created /\ panel.html = Undefined
    /\ Len(shown) = 1 /\ shown[1] = Message("error", <<"Error reading PDF: ", NotAFunctionError>>)

====
